---- MODULE Spec2Model ----
(***************************************************************************)
(* Grouped-frequency tables: the calculation functions and the Tkinter     *)
(* form of src/Untitled-1.py, and the console reader and table of          *)
(* src/ejerci.py.                                                          *)
(*                                                                         *)
(* A Python float is a record [tag, num, den]: tag "num" is the exact      *)
(* rational num/den in lowest terms with den > 0, tag "nan" is NaN, tag    *)
(* "inf" is +infinity.  A raised exception is a record whose tag is the    *)
(* exception's name; None has tag "None".  Sequences are 1-based here;     *)
(* every index a function returns is the Python (0-based) index.           *)
(***************************************************************************)
EXTENDS Integers, Sequences, FiniteSets

VARIABLES
    clases,    \* the class list handed to a calculation function
    op,        \* the function last called on it
    arg,       \* that call's arguments k, m and posicion
    res,       \* what the call returned or raised
    modo,      \* which program runs: "calculo", "gui" or "consola"
    app,       \* App.clases, the form's class list
    tree,      \* the rows of App.tree, in order
    sel,       \* the selected row of App.tree (0-based), -1 when none
    campos,    \* the texts of var_min, var_max, var_fi
    exc,       \* how the last handler ended
    pc,        \* the console program's position
    kcl,       \* leer_clases: k, the number of classes asked for
    ca, cb,    \* leer_clases: a and b of the class being read
    ccl,       \* leer_clases: clases
    tabla      \* main: the table built from ccl

varsCalc == <<clases, op, arg, res>>
varsGui == <<app, tree, sel, campos, exc>>
varsCons == <<pc, kcl, ca, cb, ccl, tabla>>
vars == <<clases, op, arg, res, modo, app, tree, sel, campos, exc, pc, kcl, ca, cb, ccl, tabla>>

(***************************************************************************)
(* Bounds of the model.                                                    *)
(***************************************************************************)
MaxLen == 3
MaxFi == 3
MaxK == 3
MaxClases == 2

(***************************************************************************)
(* Float arithmetic.                                                       *)
(***************************************************************************)
Abs(x) == IF x < 0 THEN -x ELSE x

RECURSIVE GCD(_, _)
GCD(a, b) == IF b = 0 THEN a ELSE GCD(b, a % b)

Val(t, n, d) == [tag |-> t, num |-> n, den |-> d]
NaN == Val("nan", 0, 1)
None == Val("None", 0, 1)
Raise(e) == Val(e, 0, 1)

\* n/d, d # 0, in lowest terms
Rat(n, d) ==
    LET g == GCD(Abs(n), Abs(d))
        s == IF d < 0 THEN -1 ELSE 1
    IN Val("num", (s * n) \div g, (s * d) \div g)
F(n) == Val("num", n, 1)

IsNum(x) == x.tag = "num"
FAdd(x, y) == IF IsNum(x) /\ IsNum(y) THEN Rat(x.num * y.den + y.num * x.den, x.den * y.den) ELSE NaN
FSub(x, y) == IF IsNum(x) /\ IsNum(y) THEN Rat(x.num * y.den - y.num * x.den, x.den * y.den) ELSE NaN
FMul(x, y) == IF IsNum(x) /\ IsNum(y) THEN Rat(x.num * y.num, x.den * y.den) ELSE NaN
\* x / y for y # 0 (the callers raise ZeroDivisionError before dividing by 0)
FDiv(x, y) == IF IsNum(x) /\ IsNum(y) THEN Rat(x.num * y.den, x.den * y.num) ELSE NaN
\* comparisons: False whenever an operand is NaN
FLe(x, y) == IsNum(x) /\ IsNum(y) /\ x.num * y.den <= y.num * x.den
FLt(x, y) == IsNum(x) /\ IsNum(y) /\ x.num * y.den < y.num * x.den

(***************************************************************************)
(* MODELO                                                                  *)
(***************************************************************************)
Clase(a, b, f) == [minimo |-> a, maximo |-> b, fi |-> f]
amplitud(c) == FSub(c.maximo, c.minimo)
marca(c) == FDiv(FAdd(c.minimo, c.maximo), F(2))

(***************************************************************************)
(* CALCULOS                                                                *)
(***************************************************************************)
\* sum(c.fi for c in clases)
RECURSIVE SumFi(_)
SumFi(cl) == IF cl = <<>> THEN 0 ELSE cl[1].fi + SumFi(Tail(cl))

\* the label "[ min , max [", closed with "]" on the last class
etiqueta(c, ultima) == [min |-> c.minimo, max |-> c.maximo, cierre |-> IF ultima THEN "]" ELSE "["]

fila(c, ultima, Fi) ==
    [intervalo |-> etiqueta(c, ultima), min |-> c.minimo, max |-> c.maximo,
     A |-> amplitud(c), fi |-> c.fi, Fi |-> Fi]

\* the for loop of construir_tabla from the class at 1-based index i on, Fi being
\* the running total so far
RECURSIVE filas_desde(_, _, _)
filas_desde(cl, i, Fi) ==
    IF i > Len(cl) THEN <<>>
    ELSE <<fila(cl[i], i = Len(cl), Fi + cl[i].fi)>> \o filas_desde(cl, i + 1, Fi + cl[i].fi)

\* the loop with the row filled in before Fi is advanced
RECURSIVE filas_desde_mut(_, _, _)
filas_desde_mut(cl, i, Fi) ==
    IF i > Len(cl) THEN <<>>
    ELSE <<fila(cl[i], i = Len(cl), Fi)>> \o filas_desde_mut(cl, i + 1, Fi + cl[i].fi)

construir_tabla_mut(cl) == [filas |-> filas_desde_mut(cl, 1, 0), n |-> SumFi(cl)]

construir_tabla(cl) == [filas |-> filas_desde(cl, 1, 0), n |-> SumFi(cl)]

\* sum(c.marca * c.fi for c in clases)
RECURSIVE SumMarcaFi(_)
SumMarcaFi(cl) ==
    IF cl = <<>> THEN F(0) ELSE FAdd(FMul(marca(cl[1]), F(cl[1].fi)), SumMarcaFi(Tail(cl)))

media_agrupada(cl) ==
    LET n == SumFi(cl)
    IN IF n = 0 THEN NaN ELSE FDiv(SumMarcaFi(cl), F(n))

Hallada(i, previo) == [tag |-> "ok", i |-> i, Fi_1 |-> previo]

\* the for loop of buscar_clase_por_posicion from the class at 1-based index i on
RECURSIVE buscar_desde(_, _, _, _)
buscar_desde(cl, posicion, i, Fi) ==
    IF i > Len(cl)
    THEN Hallada(Len(cl) - 1, Fi - cl[Len(cl)].fi)
    ELSE IF FLe(posicion, F(Fi + cl[i].fi))
         THEN Hallada(i - 1, Fi)
         ELSE buscar_desde(cl, posicion, i + 1, Fi + cl[i].fi)

\* the scan with "posicion < Fi" for "posicion <= Fi"
RECURSIVE buscar_desde_mut(_, _, _, _)
buscar_desde_mut(cl, posicion, i, Fi) ==
    IF i > Len(cl)
    THEN Hallada(Len(cl) - 1, Fi - cl[Len(cl)].fi)
    ELSE IF FLt(posicion, F(Fi + cl[i].fi))
         THEN Hallada(i - 1, Fi)
         ELSE buscar_desde_mut(cl, posicion, i + 1, Fi + cl[i].fi)

buscar_clase_por_posicion_mut(cl, posicion) ==
    IF cl = <<>> THEN [tag |-> "IndexError", i |-> 0, Fi_1 |-> 0]
    ELSE buscar_desde_mut(cl, posicion, 1, 0)

buscar_clase_por_posicion(cl, posicion) ==
    IF cl = <<>> THEN [tag |-> "IndexError", i |-> 0, Fi_1 |-> 0]
    ELSE buscar_desde(cl, posicion, 1, 0)

\* the quantile with pos = k * n // m for k * n / m
cuantil_agrupado_mut_div(cl, k, m) ==
    LET n == SumFi(cl)
    IN IF n = 0 THEN NaN
       ELSE IF m = 0 THEN Raise("ZeroDivisionError")
       ELSE LET pos == F((k * n) \div m)
                h == buscar_clase_por_posicion(cl, pos)
                c == cl[h.i + 1]
            IN IF c.fi = 0 THEN Raise("ZeroDivisionError")
               ELSE FAdd(c.minimo, FMul(FDiv(FSub(pos, F(h.Fi_1)), F(c.fi)), amplitud(c)))

\* the quantile interpolated down from c.maximo instead of up from c.minimo
cuantil_agrupado_mut_dir(cl, k, m) ==
    LET n == SumFi(cl)
    IN IF n = 0 THEN NaN
       ELSE IF m = 0 THEN Raise("ZeroDivisionError")
       ELSE LET pos == Rat(k * n, m)
                h == buscar_clase_por_posicion(cl, pos)
                c == cl[h.i + 1]
            IN IF c.fi = 0 THEN Raise("ZeroDivisionError")
               ELSE FSub(c.maximo, FMul(FDiv(FSub(pos, F(h.Fi_1)), F(c.fi)), amplitud(c)))

cuantil_agrupado(cl, k, m) ==
    LET n == SumFi(cl)
    IN IF n = 0 THEN NaN
       ELSE IF m = 0 THEN Raise("ZeroDivisionError")
       ELSE LET pos == Rat(k * n, m)
                h == buscar_clase_por_posicion(cl, pos)
                c == cl[h.i + 1]
            IN IF c.fi = 0 THEN Raise("ZeroDivisionError")
               ELSE FAdd(c.minimo, FMul(FDiv(FSub(pos, F(h.Fi_1)), F(c.fi)), amplitud(c)))

mediana_agrupada(cl) == cuantil_agrupado(cl, 2, 4)

\* max(range(len(clases)), key=lambda i: clases[i].fi): scan from 1-based index i,
\* mejor being the best index so far; a later index wins only with a larger key
RECURSIVE max_desde(_, _, _)
max_desde(cl, i, mejor) ==
    IF i > Len(cl) THEN mejor - 1
    ELSE max_desde(cl, i + 1, IF cl[i].fi > cl[mejor].fi THEN i ELSE mejor)

IdxMax(cl) == max_desde(cl, 2, 1)

\* the scan in which a later index wins a tie
RECURSIVE max_desde_mut(_, _, _)
max_desde_mut(cl, i, mejor) ==
    IF i > Len(cl) THEN mejor - 1
    ELSE max_desde_mut(cl, i + 1, IF cl[i].fi >= cl[mejor].fi THEN i ELSE mejor)

\* the mode with the last class of largest fi as the modal class
moda_agrupada_mut_empate(cl) ==
    IF cl = <<>> THEN None
    ELSE LET idx == max_desde_mut(cl, 2, 1)
             c == cl[idx + 1]
             f0 == IF idx - 1 >= 0 THEN cl[idx].fi ELSE 0
             f1 == c.fi
             f2 == IF idx + 1 < Len(cl) THEN cl[idx + 2].fi ELSE 0
             d1 == f1 - f0
             d2 == f1 - f2
         IN IF d1 + d2 = 0
            THEN FDiv(FAdd(c.minimo, c.maximo), F(2))
            ELSE FAdd(c.minimo, FMul(Rat(d1, d1 + d2), amplitud(c)))

\* the mode with d2 = f2 - f1 for f1 - f2
moda_agrupada_mut_d2(cl) ==
    IF cl = <<>> THEN None
    ELSE LET idx == IdxMax(cl)
             c == cl[idx + 1]
             f0 == IF idx - 1 >= 0 THEN cl[idx].fi ELSE 0
             f1 == c.fi
             f2 == IF idx + 1 < Len(cl) THEN cl[idx + 2].fi ELSE 0
             d1 == f1 - f0
             d2 == f2 - f1
         IN IF d1 + d2 = 0
            THEN FDiv(FAdd(c.minimo, c.maximo), F(2))
            ELSE FAdd(c.minimo, FMul(Rat(d1, d1 + d2), amplitud(c)))

moda_agrupada(cl) ==
    IF cl = <<>> THEN None
    ELSE LET idx == IdxMax(cl)
             c == cl[idx + 1]
             f0 == IF idx - 1 >= 0 THEN cl[idx].fi ELSE 0
             f1 == c.fi
             f2 == IF idx + 1 < Len(cl) THEN cl[idx + 2].fi ELSE 0
             d1 == f1 - f0
             d2 == f1 - f2
         IN IF d1 + d2 = 0
            THEN FDiv(FAdd(c.minimo, c.maximo), F(2))
            ELSE FAdd(c.minimo, FMul(Rat(d1, d1 + d2), amplitud(c)))
\* math.sqrt(x): the root is kept symbolic, tag "sqrt" standing for sqrt(num/den)
Sqrt(x) ==
    IF ~IsNum(x) THEN NaN
    ELSE IF x.num < 0 THEN Raise("ValueError")
    ELSE IF x.num = 0 THEN F(0)
    ELSE Val("sqrt", x.num, x.den)

\* sum(c.fi * (c.marca - xbar) ** 2 for c in clases)
RECURSIVE SumCuad(_, _)
SumCuad(cl, xbar) ==
    IF cl = <<>> THEN F(0)
    ELSE LET d == FSub(marca(cl[1]), xbar)
         IN FAdd(FMul(F(cl[1].fi), FMul(d, d)), SumCuad(Tail(cl), xbar))

Resumen(rango, var, sd, iqr, cv) ==
    [tag |-> "dict", rango |-> rango, var |-> var, sd |-> sd, IQR |-> iqr, CV |-> cv]

\* sd / xbar * 100, kept as the quotient of its operands, or inf when xbar = 0
CVpct(sd, xbar) ==
    IF xbar = F(0) THEN [tag |-> "inf", sd |-> sd, xbar |-> xbar]
    ELSE [tag |-> "sd/xbar*100", sd |-> sd, xbar |-> xbar]

dispersion_agrupada(cl) ==
    LET n == SumFi(cl)
    IN IF n = 0 THEN Resumen(NaN, NaN, NaN, NaN, NaN)
       ELSE LET xbar == media_agrupada(cl)
                ss == SumCuad(cl, xbar)
                var == IF n > 1 THEN FDiv(ss, F(n - 1)) ELSE F(0)
                sd == Sqrt(var)
                q1 == cuantil_agrupado(cl, 1, 4)
                q3 == cuantil_agrupado(cl, 3, 4)
            IN IF sd.tag = "ValueError" THEN sd
               ELSE IF q1.tag = "ZeroDivisionError" THEN q1
               ELSE IF q3.tag = "ZeroDivisionError" THEN q3
               ELSE Resumen(FSub(cl[Len(cl)].maximo, cl[1].minimo), var, sd,
                            FSub(q3, q1), CVpct(sd, xbar))

(***************************************************************************)
(* src/ejerci.py: the table as a DataFrame, the TOTAL row included.        *)
(***************************************************************************)
Vacio == Val("", 0, 1)

\* pd.Series(fi).cumsum().tolist()
RECURSIVE cumsum(_, _)
cumsum(fs, Fi) ==
    IF fs = <<>> THEN <<>> ELSE <<Fi + fs[1]>> \o cumsum(Tail(fs), Fi + fs[1])

RECURSIVE sum(_)
sum(fs) == IF fs = <<>> THEN 0 ELSE fs[1] + sum(Tail(fs))

construir_tabla_df(cl) ==
    LET fi == [i \in 1..Len(cl) |-> cl[i].fi]
        Fi == cumsum(fi, 0)
        df == [i \in 1..Len(cl) |-> fila(cl[i], i >= Len(cl), Fi[i])]
        total == [intervalo |-> [min |-> Vacio, max |-> Vacio, cierre |-> "TOTAL"],
                  min |-> Vacio, max |-> Vacio, A |-> Vacio,
                  fi |-> sum(fi), Fi |-> IF Fi # <<>> THEN Fi[Len(Fi)] ELSE 0]
    IN df \o <<total>>
(***************************************************************************)
(* Texts: what a StringVar holds or input() returns.  kind "int" is the    *)
(* decimal numeral of the integer v ("3", "-1"); kind "float" is the       *)
(* numeral of the float v with a decimal point or comma ("3.0", "3,0"),    *)
(* which is also what str() gives for a float; kind "nan" is the text      *)
(* "nan"; kind "abc" is a text that is no number; kind "" is the empty     *)
(* text.                                                                   *)
(***************************************************************************)
Texto(kind, v) == [kind |-> kind, v |-> v]
TVacio == Texto("", 0)
TLetras == Texto("abc", 0)
TEntero(n) == Texto("int", n)
TDecimal(n) == Texto("float", n)
TNan == Texto("nan", 0)

\* float(s.replace(",", ".")): the float, or ValueError
float(s) ==
    IF s.kind \in {"int", "float"} THEN F(s.v)
    ELSE IF s.kind = "nan" THEN NaN
    ELSE Raise("ValueError")

\* int(s): the integer as a float record, or ValueError
int(s) == IF s.kind = "int" THEN F(s.v) ELSE Raise("ValueError")

\* str(x) of a float with an integral value, and of an int
str_float(x) == IF IsNum(x) THEN TDecimal(x.num) ELSE TNan
str_int(n) == TEntero(n)

(***************************************************************************)
(* INTERFAZ (Tkinter): class App                                           *)
(***************************************************************************)
CamposVacios == [min |-> TVacio, max |-> TVacio, fi |-> TVacio]

\* App._leer_campos: the Clase read from the fields, or None after showerror
_leer_campos(cs) ==
    LET a == float(cs.min)
        b == float(cs.max)
        fi == int(cs.fi)
    IN IF a.tag = "ValueError" \/ b.tag = "ValueError" \/ fi.tag = "ValueError"
       THEN [tag |-> "None", c |-> Clase(NaN, NaN, 0)]
       ELSE IF FLe(b, a) THEN [tag |-> "None", c |-> Clase(NaN, NaN, 0)]
       ELSE IF fi.num < 0 THEN [tag |-> "None", c |-> Clase(NaN, NaN, 0)]
       ELSE [tag |-> "Clase", c |-> Clase(a, b, fi.num)]

FilaTotal(n) ==
    [intervalo |-> [min |-> Vacio, max |-> Vacio, cierre |-> "TOTAL"],
     min |-> Vacio, max |-> Vacio, A |-> Vacio, fi |-> n, Fi |-> n]

\* the rows App._refrescar_tabla leaves in the tree
Filas(cl) ==
    LET t == IF cl # <<>> THEN construir_tabla(cl) ELSE [filas |-> <<>>, n |-> 0]
    IN t.filas \o (IF t.n > 0 THEN <<FilaTotal(t.n)>> ELSE <<>>)

\* del clases[idx], clases[idx] = c (idx 0-based and in range)
Borrar(cl, idx) == SubSeq(cl, 1, idx) \o SubSeq(cl, idx + 2, Len(cl))
Poner(cl, idx, c) == [cl EXCEPT ![idx + 1] = c]

\* the user types a text into one of the three entries
Escribir ==
    /\ modo = "gui"
    /\ \E campo \in {"min", "max"}, t \in {TLetras, TEntero(0), TEntero(1), TNan} :
           campos' = [campos EXCEPT ![campo] = t]
    /\ UNCHANGED <<app, tree, sel, exc, modo, varsCalc, varsCons>>

EscribirFi ==
    /\ modo = "gui"
    /\ \E t \in {TLetras, TEntero(-1), TEntero(0), TEntero(1)} :
           campos' = [campos EXCEPT !.fi = t]
    /\ UNCHANGED <<app, tree, sel, exc, modo, varsCalc, varsCons>>

\* _refrescar_tabla() then _limpiar_campos() on the class list cl
RefrescarYLimpiar(cl) ==
    /\ app' = cl
    /\ tree' = Filas(cl)
    /\ campos' = CamposVacios
    /\ sel' = -1
    /\ exc' = ""

_agregar_clase ==
    /\ modo = "gui"
    /\ LET c == _leer_campos(campos)
       IN IF c.tag = "None"
          THEN exc' = "showerror" /\ UNCHANGED <<app, tree, sel, campos>>
          ELSE IF sel # -1
               THEN IF sel < Len(app)
                    THEN RefrescarYLimpiar(Poner(app, sel, c.c))
                    ELSE exc' = "IndexError" /\ UNCHANGED <<app, tree, sel, campos>>
               ELSE /\ Len(app) < MaxClases
                    /\ RefrescarYLimpiar(Append(app, c.c))
    /\ UNCHANGED <<modo, varsCalc, varsCons>>

_limpiar_campos ==
    /\ modo = "gui"
    /\ campos' = CamposVacios
    /\ sel' = -1
    /\ exc' = ""
    /\ UNCHANGED <<app, tree, modo, varsCalc, varsCons>>

\* a click on row idx of the tree selects it; <<TreeviewSelect>> then runs
\* _cargar_desde_tabla
_cargar_desde_tabla ==
    /\ modo = "gui"
    /\ \E idx \in 0..(Len(tree) - 1) :
           /\ sel' = idx
           /\ IF idx < Len(app)
              THEN /\ campos' = [min |-> str_float(app[idx + 1].minimo),
                                 max |-> str_float(app[idx + 1].maximo),
                                 fi |-> str_int(app[idx + 1].fi)]
                   /\ exc' = ""
              ELSE exc' = "IndexError" /\ UNCHANGED campos
    /\ UNCHANGED <<app, tree, modo, varsCalc, varsCons>>

_eliminar_seleccion ==
    /\ modo = "gui"
    /\ IF sel = -1
       THEN exc' = "showinfo" /\ UNCHANGED <<app, tree, sel, campos>>
       ELSE IF sel < Len(app)
            THEN RefrescarYLimpiar(Borrar(app, sel))
            ELSE exc' = "IndexError" /\ UNCHANGED <<app, tree, sel, campos>>
    /\ UNCHANGED <<modo, varsCalc, varsCons>>

\* the button "Recalcular tabla": the tree's rows are deleted and inserted anew,
\* which leaves nothing selected
_refrescar_tabla ==
    /\ modo = "gui"
    /\ tree' = Filas(app)
    /\ sel' = -1
    /\ exc' = ""
    /\ UNCHANGED <<app, campos, modo, varsCalc, varsCons>>

(***************************************************************************)
(* src/ejerci.py: leer_clases and main, one action per input() answered.   *)
(***************************************************************************)
Respuestas == {TLetras, TNan} \cup {TEntero(n) : n \in (-1)..MaxClases}

\* pedir_entero(msg, minimo) on the answer s: the integer, or ValueError (asked again)
pedir_entero(s, minimo) ==
    LET v == int(s)
    IN IF v.tag = "ValueError" THEN v
       ELSE IF v.num < minimo THEN Raise("ValueError")
       ELSE v

\* pedir_float(msg) on the answer s
pedir_float(s) == float(s)

PedirK ==
    /\ modo = "consola" /\ pc = "k"
    /\ \E s \in Respuestas :
         LET v == pedir_entero(s, 1)
         IN IF v.tag = "ValueError"
            THEN UNCHANGED <<pc, kcl>>
            ELSE kcl' = v.num /\ pc' = "minimo"
    /\ UNCHANGED <<ca, cb, ccl, tabla, modo, varsCalc, varsGui>>

PedirMinimo ==
    /\ modo = "consola" /\ pc = "minimo"
    /\ \E s \in Respuestas :
         LET v == pedir_float(s)
         IN IF v.tag = "ValueError"
            THEN UNCHANGED <<pc, ca>>
            ELSE ca' = v /\ pc' = "maximo"
    /\ UNCHANGED <<kcl, cb, ccl, tabla, modo, varsCalc, varsGui>>

\* the first "Valor maximo" and those asked again while b <= a
PedirMaximo ==
    /\ modo = "consola" /\ pc = "maximo"
    /\ \E s \in Respuestas :
         LET v == pedir_float(s)
         IN IF v.tag = "ValueError"
            THEN UNCHANGED <<pc, cb>>
            ELSE cb' = v /\ pc' = IF FLe(v, ca) THEN "maximo" ELSE "fi"
    /\ UNCHANGED <<kcl, ca, ccl, tabla, modo, varsCalc, varsGui>>

PedirFi ==
    /\ modo = "consola" /\ pc = "fi"
    /\ \E s \in Respuestas :
         LET v == pedir_entero(s, 0)
         IN IF v.tag = "ValueError"
            THEN UNCHANGED <<pc, ccl>>
            ELSE /\ ccl' = Append(ccl, Clase(ca, cb, v.num))
                 /\ pc' = IF Len(ccl) + 1 = kcl THEN "tabla" ELSE "minimo"
    /\ UNCHANGED <<kcl, ca, cb, tabla, modo, varsCalc, varsGui>>

\* main: tabla = construir_tabla(clases)
Tabular ==
    /\ modo = "consola" /\ pc = "tabla"
    /\ tabla' = construir_tabla_df(ccl)
    /\ pc' = "fin"
    /\ UNCHANGED <<kcl, ca, cb, ccl, modo, varsCalc, varsGui>>

(***************************************************************************)
(* The two programs that collect classes.                                  *)
(***************************************************************************)
SinArg == [k |-> 0, m |-> 0, p |-> NaN]

GuiParada ==
    /\ app = <<>> /\ tree = <<>> /\ sel = -1
    /\ campos = CamposVacios
    /\ exc = ""
ConsolaParada ==
    /\ pc = "" /\ kcl = 0 /\ ca = Vacio /\ cb = Vacio /\ ccl = <<>> /\ tabla = <<>>


CalcParado == clases = <<>> /\ op = "" /\ arg = SinArg /\ res = None

\* App.__init__: no classes, the table refreshed
InitGui ==
    /\ modo = "gui"
    /\ app = <<>> /\ tree = Filas(<<>>) /\ sel = -1 /\ campos = CamposVacios /\ exc = ""
    /\ CalcParado /\ ConsolaParada

InitConsola ==
    /\ modo = "consola"
    /\ pc = "k" /\ kcl = 0 /\ ca = Vacio /\ cb = Vacio /\ ccl = <<>> /\ tabla = <<>>
    /\ CalcParado /\ GuiParada

InitColab == InitGui \/ InitConsola

NextColab ==
    \/ Escribir
    \/ EscribirFi
    \/ _agregar_clase
    \/ _limpiar_campos
    \/ _cargar_desde_tabla
    \/ _eliminar_seleccion
    \/ _refrescar_tabla
    \/ PedirK
    \/ PedirMinimo
    \/ PedirMaximo
    \/ PedirFi
    \/ Tabular

SpecColab == InitColab /\ [][NextColab]_vars

(***************************************************************************)
(* The calculation functions called on a class list.                       *)
(***************************************************************************)
\* how the intervals of a list of n classes lie: the i-th interval <<minimo, maximo>>
Disposiciones ==
    {"contiguos", "separados", "descendentes", "solapados", "iguales", "invertidos"}
IntervaloDe(d, i, n) ==
    CASE d = "contiguos" -> <<i - 1, i>>
      [] d = "separados" -> <<2 * (i - 1), 2 * i - 1>>
      [] d = "descendentes" -> <<n - i, n - i + 1>>
      [] d = "solapados" -> <<i - 1, i + 1>>
      [] d = "iguales" -> <<0, 1>>
      [] d = "invertidos" -> <<i, i - 1>>
Frecuencias == (-1)..MaxFi
ListasDe(n) ==
    {[i \in 1..n |-> Clase(F(IntervaloDe(d, i, n)[1]), F(IntervaloDe(d, i, n)[2]), fs[i])] :
        d \in Disposiciones, fs \in [1..n -> Frecuencias]}
\* the single class (10, 20, 7)
Ejemplo4 == <<Clase(F(10), F(20), 7)>>
Entradas == UNION {ListasDe(n) : n \in 0..MaxLen} \cup {Ejemplo4}

Ks == 0..MaxK
Ms == {-1, 0, 1, 2, 4}
\* the positions j/2 from below 0 to above the largest running total
RECURSIVE SumPos(_)
SumPos(cl) == IF cl = <<>> THEN 0 ELSE (IF cl[1].fi > 0 THEN cl[1].fi ELSE 0) + SumPos(Tail(cl))
Posiciones(cl) == {Rat(j, 2) : j \in (-1)..(2 * SumPos(cl) + 1)}

InitCalc ==
    /\ modo = "calculo"
    /\ clases \in Entradas
    /\ op = "" /\ arg = SinArg /\ res = None
    /\ GuiParada /\ ConsolaParada

\* one call of a function on the class list drawn by InitCalc
Llamar(f, a, r) ==
    /\ modo = "calculo" /\ op = ""
    /\ op' = f /\ arg' = a /\ res' = r
    /\ UNCHANGED <<clases, modo, varsGui, varsCons>>

LlamarConstruirTabla == Llamar("construir_tabla", SinArg, construir_tabla(clases))
LlamarConstruirTablaDf ==
    Llamar("construir_tabla_df", SinArg, [tag |-> "df", filas |-> construir_tabla_df(clases)])
LlamarMedia == Llamar("media_agrupada", SinArg, media_agrupada(clases))
LlamarBuscar ==
    \E p \in Posiciones(clases) :
        Llamar("buscar_clase_por_posicion", [SinArg EXCEPT !.p = p],
               buscar_clase_por_posicion(clases, p))
LlamarCuantil ==
    \E k \in Ks, m \in Ms :
        Llamar("cuantil_agrupado", [SinArg EXCEPT !.k = k, !.m = m],
               cuantil_agrupado(clases, k, m))
LlamarMediana == Llamar("mediana_agrupada", SinArg, mediana_agrupada(clases))
LlamarModa == Llamar("moda_agrupada", SinArg, moda_agrupada(clases))
LlamarDispersion == Llamar("dispersion_agrupada", SinArg, dispersion_agrupada(clases))

NextCalc ==
    \/ LlamarConstruirTabla
    \/ LlamarConstruirTablaDf
    \/ LlamarMedia
    \/ LlamarBuscar
    \/ LlamarCuantil
    \/ LlamarMediana
    \/ LlamarModa
    \/ LlamarDispersion

Spec == InitCalc /\ [][NextCalc]_vars
(***************************************************************************)
(* Properties.                                                             *)
(***************************************************************************)
\* the cumulative frequency of the classes 1..i
Cum(cl, i) ==
    LET S[j \in 0..i] == IF j = 0 THEN 0 ELSE S[j - 1] + cl[j].fi
    IN S[i]
Total(cl) == Cum(cl, Len(cl))

NoNegativas(cl) == \A i \in 1..Len(cl) : cl[i].fi >= 0
AnchoPositivo(cl) == \A i \in 1..Len(cl) : FLt(cl[i].minimo, cl[i].maximo)
\* each class starts at or after the end of the one before it
Ascendente(cl) == \A i \in 1..(Len(cl) - 1) : FLe(cl[i].maximo, cl[i + 1].minimo)

\* C1: construir_tabla returns one row per class, in input order, row i holding
\* the sum of fi over the classes up to and including i, and n the sum of all fi;
\* so the last row's Fi is n, and the empty list gives no rows and n = 0.  The
\* DataFrame of ejerci.py holds the same rows followed by one TOTAL row with n in
\* both frequency columns.
C1_TablaAcumulada ==
    /\ op = "construir_tabla" =>
        /\ Len(res.filas) = Len(clases)
        /\ \A i \in 1..Len(clases) :
              /\ res.filas[i].min = clases[i].minimo
              /\ res.filas[i].max = clases[i].maximo
              /\ res.filas[i].fi = clases[i].fi
              /\ res.filas[i].Fi = Cum(clases, i)
        /\ res.n = Total(clases)
        /\ clases # <<>> => res.filas[Len(clases)].Fi = res.n
        /\ clases = <<>> => res.filas = <<>> /\ res.n = 0
    /\ op = "construir_tabla_df" =>
        /\ Len(res.filas) = Len(clases) + 1
        /\ \A i \in 1..Len(clases) :
              /\ res.filas[i].min = clases[i].minimo
              /\ res.filas[i].max = clases[i].maximo
              /\ res.filas[i].fi = clases[i].fi
              /\ res.filas[i].Fi = Cum(clases, i)
        /\ res.filas[Len(clases) + 1].intervalo.cierre = "TOTAL"
        /\ res.filas[Len(clases) + 1].fi = Total(clases)
        /\ res.filas[Len(clases) + 1].Fi = Total(clases)

C1_Witness ==
    /\ op = "construir_tabla"
    /\ Len(clases) = 3
    /\ clases[1].fi = 1 /\ clases[2].fi = 2 /\ clases[3].fi = 1
    /\ res.filas[2].Fi = 3 /\ res.filas[3].Fi = 4 /\ res.n = 4

\* the undefined sentinel: NaN, None, or the summary whose fields are all NaN
Indefinido(r) ==
    \/ r.tag \in {"nan", "None"}
    \/ /\ r.tag = "dict"
       /\ r.rango = NaN /\ r.var = NaN /\ r.sd = NaN /\ r.IQR = NaN /\ r.CV = NaN

\* C2: on a class list that is empty or whose frequencies sum to 0, the mean, the
\* median, a quantile, the mode and the dispersion summary are each the undefined
\* sentinel, never an exception or an ordinary number.
C2_IndefinidoSinDatos ==
    (/\ op \in {"media_agrupada", "mediana_agrupada", "cuantil_agrupado",
                "moda_agrupada", "dispersion_agrupada"}
     /\ Total(clases) = 0)
    => Indefinido(res)

\* C3: with n > 0 and m # 0, a quantile whose located class has fi = 0 neither
\* raises ZeroDivisionError nor returns infinity.
C3_ClaseVaciaSinError ==
    (/\ op = "cuantil_agrupado"
     /\ Total(clases) > 0
     /\ arg.m # 0
     /\ clases[buscar_clase_por_posicion(clases, Rat(arg.k * Total(clases), arg.m)).i + 1].fi = 0)
    => res.tag \notin {"ZeroDivisionError", "inf"}

Q1 == cuantil_agrupado(clases, 1, 4)
Q2 == cuantil_agrupado(clases, 2, 4)
Q3 == cuantil_agrupado(clases, 3, 4)
CuartilLlamado == op = "cuantil_agrupado" /\ arg.m = 4 /\ arg.k \in 1..3

\* C4 as claimed: with no fi negative, every maximo > minimo and some fi > 0, the
\* quartiles are ordered Q1 <= Q2 <= Q3, whatever the order of the intervals.
C4_CuartilesOrdenados ==
    (/\ CuartilLlamado
     /\ NoNegativas(clases) /\ AnchoPositivo(clases) /\ Total(clases) > 0)
    => FLe(Q1, Q2) /\ FLe(Q2, Q3)

\* C4 as amended: the same, for classes listed in ascending order without overlap.
C4_CuartilesOrdenadosAscendente ==
    (/\ CuartilLlamado
     /\ NoNegativas(clases) /\ AnchoPositivo(clases) /\ Total(clases) > 0
     /\ Ascendente(clases))
    => FLe(Q1, Q2) /\ FLe(Q2, Q3)

C4_Witness ==
    /\ CuartilLlamado
    /\ Len(clases) = 3 /\ Ascendente(clases) /\ AnchoPositivo(clases)
    /\ clases[1].fi = 1 /\ clases[2].fi = 0 /\ clases[3].fi = 2
    /\ FLt(Q1, Q2) /\ FLt(Q2, Q3)

\* the first class (1-based) whose fi is the largest
Modal(cl) ==
    CHOOSE i \in 1..Len(cl) :
        /\ \A j \in 1..Len(cl) : cl[j].fi <= cl[i].fi
        /\ \A j \in 1..(i - 1) : cl[j].fi # cl[i].fi
FiEn(cl, i) == IF i \in 1..Len(cl) THEN cl[i].fi ELSE 0
D1(cl) == FiEn(cl, Modal(cl)) - FiEn(cl, Modal(cl) - 1)
D2(cl) == FiEn(cl, Modal(cl)) - FiEn(cl, Modal(cl) + 1)

\* C5: the mode of a non-empty list is taken in the first class of largest fi,
\* with d1 and d2 its excess over the class before and after it (0 where there is
\* none): the midpoint when d1 + d2 = 0, else minimo + d1/(d1+d2) * amplitud.  The
\* single class (10, 20, 7) gives 15.
C5_ModaInterpolada ==
    (op = "moda_agrupada" /\ clases # <<>>) =>
        LET c == clases[Modal(clases)]
            d1 == D1(clases)
            d2 == D2(clases)
            medio == Rat(c.minimo.num * c.maximo.den + c.maximo.num * c.minimo.den,
                         2 * c.minimo.den * c.maximo.den)
        IN /\ d1 + d2 = 0 => res = medio
           /\ d1 + d2 # 0 =>
                res = FAdd(c.minimo, FMul(Rat(d1, d1 + d2), FSub(c.maximo, c.minimo)))
           /\ clases = Ejemplo4 => res = F(15)

C5_Witness ==
    /\ op = "moda_agrupada"
    /\ Len(clases) = 3
    /\ clases[1].fi = 1 /\ clases[2].fi = 2 /\ clases[3].fi = 2
    /\ clases[2].minimo = F(1) /\ clases[2].maximo = F(3)
    /\ res = F(3)

\* C6: with no fi negative and every maximo > minimo, the mode of a non-empty
\* list lies within the modal class: minimo <= mode <= maximo.
C6_ModaEnClaseModal ==
    (/\ op = "moda_agrupada" /\ clases # <<>>
     /\ NoNegativas(clases) /\ AnchoPositivo(clases))
    => /\ FLe(clases[Modal(clases)].minimo, res)
       /\ FLe(res, clases[Modal(clases)].maximo)

C6_Witness ==
    /\ op = "moda_agrupada"
    /\ Len(clases) = 3 /\ NoNegativas(clases)
    /\ clases[1].fi = 1 /\ clases[2].fi = 2 /\ clases[3].fi = 0
    /\ FLt(clases[2].minimo, res) /\ FLt(res, clases[2].maximo)

\* the classes (1-based) whose cumulative frequency reaches the position p
Alcanzan(cl, p) == {i \in 1..Len(cl) : FLe(p, F(Cum(cl, i)))}
Primera(S) == CHOOSE i \in S : \A j \in S : i <= j

\* C7: on a non-empty list the locator returns the smallest index whose
\* cumulative frequency is >= the position, with the cumulative frequency of the
\* classes before it; when no class reaches the position, the last index, with
\* the total less the last class's fi.
C7_PrimeraClaseQueAlcanza ==
    (op = "buscar_clase_por_posicion" /\ clases # <<>>) =>
        LET S == Alcanzan(clases, arg.p)
        IN /\ res.tag = "ok"
           /\ S # {} =>
                /\ res.i = Primera(S) - 1
                /\ res.Fi_1 = Cum(clases, Primera(S)) - clases[Primera(S)].fi
           /\ S = {} =>
                /\ res.i = Len(clases) - 1
                /\ res.Fi_1 = Total(clases) - clases[Len(clases)].fi

\* a position on a cumulative boundary goes to the earlier class
C7_Witness ==
    /\ op = "buscar_clase_por_posicion"
    /\ Len(clases) = 3
    /\ clases[1].fi = 1 /\ clases[2].fi = 1 /\ clases[3].fi = 1
    /\ arg.p = F(2)
    /\ res.i = 1 /\ res.Fi_1 = 1

C7_WitnessUltima ==
    /\ op = "buscar_clase_por_posicion"
    /\ Len(clases) = 2
    /\ Alcanzan(clases, arg.p) = {}
    /\ res.i = 1

\* C8: with no fi negative, every maximo > minimo, n > 0 and 1 <= k <= m, the
\* class located for k*n/m has fi > 0, the position lies in (Fi_1, Fi_1 + fi], and
\* the quantile lies in (minimo, maximo] of that class, on maximo exactly when the
\* position is the class's cumulative frequency.
C8_CuantilEnClaseHallada ==
    (/\ op = "cuantil_agrupado"
     /\ NoNegativas(clases) /\ AnchoPositivo(clases) /\ Total(clases) > 0
     /\ 1 <= arg.k /\ arg.k <= arg.m)
    => LET pos == Rat(arg.k * Total(clases), arg.m)
           h == buscar_clase_por_posicion(clases, pos)
           c == clases[h.i + 1]
       IN /\ c.fi > 0
          /\ FLt(F(h.Fi_1), pos) /\ FLe(pos, F(h.Fi_1 + c.fi))
          /\ FLt(c.minimo, res) /\ FLe(res, c.maximo)
          /\ (res = c.maximo) <=> (pos = F(Cum(clases, h.i + 1)))

C8_Witness ==
    /\ op = "cuantil_agrupado"
    /\ arg.k = 1 /\ arg.m = 2
    /\ Len(clases) = 3 /\ AnchoPositivo(clases)
    /\ clases[1].fi = 1 /\ clases[2].fi = 0 /\ clases[3].fi = 1
    /\ res = clases[1].maximo

\* C9: every row of the tree, the TOTAL row included, is the index of a class, so
\* no handler ends in IndexError; and Agregar/Actualizar with valid fields replaces
\* the class of the selected row, the others and the length unchanged, or appends
\* the class when no row is selected.
C9_FilasValidas ==
    /\ [](modo = "gui" => (Len(tree) <= Len(app) /\ exc # "IndexError"))
    /\ [][(_agregar_clase /\ _leer_campos(campos).tag = "Clase") =>
            IF sel # -1
            THEN /\ sel < Len(app)
                 /\ Len(app') = Len(app)
                 /\ \A i \in 1..Len(app) :
                       app'[i] = IF i = sel + 1 THEN _leer_campos(campos).c ELSE app[i]
            ELSE app' = Append(app, _leer_campos(campos).c)]_vars

\* C10: every class in the form's list and in the console reader's list has
\* maximo > minimo and fi >= 0, and Agregar/Actualizar with fields that fail
\* validation leaves the list as it was.
C10_ClasesValidas ==
    /\ [](\A i \in 1..Len(app) : FLt(app[i].minimo, app[i].maximo) /\ app[i].fi >= 0)
    /\ [](\A i \in 1..Len(ccl) : FLt(ccl[i].minimo, ccl[i].maximo) /\ ccl[i].fi >= 0)
    /\ [][(_agregar_clase /\ _leer_campos(campos).tag = "None") => app' = app]_vars
====
